---- MODULE Spec2Model ----
(***************************************************************************)
(* Node configuration screens of nodes_tab.js: EditNodeScreen,             *)
(* EditNodeDisksScreen with its NodeDisk sub-views, and                    *)
(* EditNodeInterfacesScreen with its NodeInterface sub-views.              *)
(*                                                                         *)
(* One screen is open at a time.  The state is the Backbone models the     *)
(* screen holds (node, cluster, disks / interfaces), the baseline          *)
(* initialData, the DOM state the handlers read and write (disabled flags  *)
(* of the buttons and inputs, the text of the size inputs, the collapse    *)
(* state of the disk forms) and the requests in flight.                    *)
(***************************************************************************)
EXTENDS Integers, Sequences, FiniteSets, Bags, TLC

\* ------------------------------------------------------------------ bounds

\* Largest number the operator types into a size input.
MaxInput == 1
\* Largest number of update requests in flight at once.
MaxCommits == 2
\* Largest number of defaults requests in flight at once.
MaxDefaults == 1

\* ------------------------------------------------------------- option type

None == [some |-> FALSE]
Some(x) == [some |-> TRUE, val |-> x]

\* ------------------------------------------------------------ status feed

NodeStatuses == {"discover", "provisioning", "provisioned", "deploying", "ready", "error"}
ErrorTypes == {"provision", "deploy", "null"}
ClusterStatuses == {"new", "deployment", "operational", "error", "remove"}

\* Every value of the node fields the lock policies read.
AllNodeStates ==
    [pending_addition : BOOLEAN, status : NodeStatuses, error_type : ErrorTypes]

\* The node states the session specification draws from: one the domain
\* tests unlock, one the disk test locks.
SessionNodeStates ==
    { [pending_addition |-> TRUE,  status |-> "discover", error_type |-> "null"],
      [pending_addition |-> FALSE, status |-> "error",    error_type |-> "deploy"] }

SessionClusterStatuses == {"new", "error"}

\* ------------------------------------------------------------- disk data

DiskIds == {"sda", "sdb"}
VolumeNames == {"os", "vm", "log"}

\* min_size of each volume group, as the volumes collection reports it.
MinSize ==
    [v \in VolumeNames |-> CASE v = "os" -> 1 [] v = "vm" -> 0 [] OTHER -> -1]

\* The disks the server reports for the node.
ServerDisks ==
    [d \in DiskIds |->
        IF d = "sda"
        THEN [size |-> 1, volumes |-> [v \in {"os", "vm"} |-> IF v = "os" THEN 1 ELSE 0]]
        ELSE [size |-> 1, volumes |-> [v \in {"vm"} |-> 0]]]

\* The allocation the server suggests as defaults.
DefaultDisks ==
    [d \in DiskIds |->
        IF d = "sda"
        THEN [size |-> 1, volumes |-> [v \in {"os", "vm"} |-> IF v = "os" THEN 1 ELSE 0]]
        ELSE [size |-> 1, volumes |-> [v \in {"vm"} |-> 1]]]

\* A suggested allocation that does not fit: the volumes of sda exceed it.
OverDefaultDisks ==
    [d \in DiskIds |->
        IF d = "sda"
        THEN [size |-> 1, volumes |-> [v \in {"os", "vm"} |-> 1]]
        ELSE [size |-> 1, volumes |-> [v \in {"vm"} |-> 0]]]

\* The answers of the defaults collaborator: they come unvalidated.
DefaultsSet == {DefaultDisks, OverDefaultDisks}

EmptyCollection == [d \in {} |-> 0]

\* --------------------------------------------------------- input parsing

\* The text of a size input: comma-grouped digits showing n, the empty
\* string, or text that is no number.
Digits(n) == [kind |-> "digits", n |-> n]
EmptyText == [kind |-> "empty", n |-> 0]
JunkText == [kind |-> "junk", n |-> 0]

\* The texts the operator types in a session.
TypedTexts == {Digits(n) : n \in 0..MaxInput}

\* Number(text.replace(/,/g, '')): the digits' value, 0 for '', NaN otherwise.
ParseSize(text) ==
    CASE text.kind = "digits" -> [nan |-> FALSE, n |-> text.n]
      [] text.kind = "empty"  -> [nan |-> FALSE, n |-> 0]
      [] OTHER                -> [nan |-> TRUE,  n |-> 0]

\* The text autoNumeric shows for a stored size.
FormatSize(n) == Digits(n)

\* ------------------------------------------------------------------ state

VARIABLES
    screen,          \* the screen the tab shows: "disks", "interfaces", "list"
    node,            \* the node's attributes read by the lock policies
    cluster,         \* the cluster: its status and whether a deploy task runs
    loading,         \* state of the screen's loading deferred
    fetches,         \* initial fetches not yet answered
    listening,       \* the collection's event handlers are bound
    disks,           \* the live disks collection (toJSON of it)
    volErr,          \* validationError of each volume model
    diskErr,         \* validationError of each disk model
    interfaces,      \* the live interfaces collection (toJSON of it)
    draggedNetworks, \* screen.draggedNetworks
    sortDisabled,    \* the sortable of each rendered interface is disabled
    initialData,     \* the baseline
    input,           \* text of the size inputs
    formOpen,        \* the disk form of each NodeDisk view is expanded
    ctl,             \* disabled flags of the buttons and of the inputs
    commits,         \* update requests in flight
    defaults,        \* defaults requests in flight
    outcome,         \* what applyChanges returned, when the last step called it
    interrupted,     \* a status change arrived while networks were staged
    tornDown,        \* the tab has replaced and torn down the edit screen
    nodes,           \* the chosen nodes of the node list (their attributes)
    panel,           \* the roles and delete panels: checked roles, buttons
    bulk,            \* bulk node updates in flight
    tab,             \* NodesTab: its screens and the fade-outs under way
    poll             \* the polling chain of the node list screen

vars == <<screen, node, cluster, loading, fetches, listening, disks, volErr,
          diskErr, interfaces, draggedNetworks, sortDisabled, initialData,
          input, formOpen, ctl, commits, defaults, outcome, interrupted,
          tornDown, nodes, panel, bulk, tab, poll>>

diskVars == <<disks, volErr, diskErr, input, formOpen>>
ifcVars == <<interfaces, draggedNetworks, sortDisabled>>
feedVars == <<node, cluster>>
panelVars == <<nodes, panel, bulk>>
\* What the handlers of the edit screens never write.
listVars == <<tab, poll>>
histVars == <<interrupted, tornDown, panelVars, listVars>>

\* ------------------------------------------------------------ lock policy

\* EditNodeScreen.isLocked: a deploy task of the cluster is running.
EditNodeScreen_isLocked(c) == c.deploy

\* A lock that accepts an error of any type.
Disks_isLocked_anyError(n, c) ==
    ~(n.pending_addition \/ n.status = "error") \/ c.deploy

\* EditNodeDisksScreen.isLocked
Disks_isLocked(n, c) ==
    ~(n.pending_addition \/ (n.status = "error" /\ n.error_type = "provision"))
        \/ EditNodeScreen_isLocked(c)

\* EditNodeInterfacesScreen.isLocked: reads the status of this.model, the cluster.
Interfaces_isLocked(n, c) ==
    ~(n.pending_addition \/ c.status = "error") \/ EditNodeScreen_isLocked(c)

\* isLocked of the open screen.
isLocked(s, n, c) ==
    IF s = "interfaces" THEN Interfaces_isLocked(n, c) ELSE Disks_isLocked(n, c)

\* ------------------------------------------------------------- disk model

RECURSIVE SumOver(_, _)
SumOver(f, S) ==
    IF S = {} THEN 0
    ELSE LET x == CHOOSE y \in S : TRUE IN f[x] + SumOver(f, S \ {x})

\* Disk.getUnallocatedSpace({skip: name}): size minus the other volumes.
getUnallocatedSpace(disk, skip) ==
    disk.size - SumOver(disk.volumes, DOMAIN disk.volumes \ skip)

\* Volume.validate: an error for NaN, a negative size, a size below the minimum.
Volume_validate(size, minimum) ==
    size.nan \/ size.n < 0 \/ size.n < minimum

\* Disk.validate: an error when the volumes exceed the disk.
Disk_validate(disk) == getUnallocatedSpace(disk, {}) < 0

\* Volume.getMinimalSize(minimum)
getMinimalSize(minimum) == minimum

\* NodeDisk.getVolumeMinimum
getVolumeMinimum(name) == MinSize[name]

\* A per-volume check that ignores the supplied minimum.
validateVolume_noMinimum(text, name) == Volume_validate(ParseSize(text), 0)

\* NodeDisk.validateVolume: whether set(..., {validate: true}) refuses the input.
validateVolume(text, name) ==
    Volume_validate(ParseSize(text), getVolumeMinimum(name))

\* NodeDisk.updateDisk for disk d with the inputs inp: the volumes after the
\* per-volume sets (a refused set keeps the stored size).
updateDisk_volumes(ds, inp, d) ==
    [v \in DOMAIN ds[d].volumes |->
        IF validateVolume(inp[d][v], v) THEN ds[d].volumes[v]
        ELSE ParseSize(inp[d][v]).n]

\* NodeDisk.updateDisks: every rendered NodeDisk runs updateDisk.
updateDisks_disks(ds, inp) ==
    [d \in DOMAIN ds |-> [ds[d] EXCEPT !.volumes = updateDisk_volumes(ds, inp, d)]]

\* Per-volume marks that an accepted input does not clear.
updateDisks_volErr_sticky(ds, inp) ==
    [d \in DOMAIN ds |->
        [v \in DOMAIN ds[d].volumes |-> volErr[d][v] \/ validateVolume(inp[d][v], v)]]

\* The marks of the volumes after every NodeDisk ran validateVolume.
updateDisks_volErr(ds, inp) ==
    [d \in DOMAIN ds |-> [v \in DOMAIN ds[d].volumes |-> validateVolume(inp[d][v], v)]]

\* A disk check that runs before the per-volume sets.
updateDisks_diskErr_stale(ds, inp) ==
    [d \in DOMAIN ds |-> Disk_validate(ds[d])]

\* The disk set of updateDisk: {validate: true} after the volumes were set.
updateDisks_diskErr(ds, inp) ==
    [d \in DOMAIN ds |-> Disk_validate(updateDisks_disks(ds, inp)[d])]

\* Fresh models, as reset(..., {parse: true}) creates them.
NoVolErr(ds) == [d \in DOMAIN ds |-> [v \in DOMAIN ds[d].volumes |-> FALSE]]
NoDiskErr(ds) == [d \in DOMAIN ds |-> FALSE]

\* NodeDisk.render: the inputs show the stored sizes, the form is collapsed.
NodeDisk_render_input(ds) ==
    [d \in DOMAIN ds |-> [v \in DOMAIN ds[d].volumes |-> FormatSize(ds[d].volumes[v])]]
NodeDisk_render_form(ds) == [d \in DOMAIN ds |-> FALSE]

\* EditNodeDisksScreen.hasChanges
Disks_hasChanges(ds, init) == Some(ds) # init

\* EditNodeDisksScreen.hasValidationErrors: some volume of some disk carries
\* a validationError.
Disks_hasValidationErrors(ds, ve) ==
    \E d \in DOMAIN ds : \E v \in DOMAIN ve[d] : ve[d][v]

\* ---------------------------------------------------------------- controls

\* The screen template: apply and revert are rendered disabled, the defaults
\* button is rendered disabled when locked; the return button and fresh
\* inputs are enabled.
Template(locked) ==
    [apply |-> TRUE, revert |-> TRUE, defaults |-> locked, ret |-> FALSE,
     inputs |-> FALSE]

\* EditNodeScreen.disableControls: every .btn and input.
disableControls(disable, locked) ==
    [apply |-> disable \/ locked, revert |-> disable \/ locked,
     defaults |-> disable \/ locked, ret |-> disable \/ locked,
     inputs |-> disable \/ locked]

\* EditNodeDisksScreen.checkForChanges
Disks_checkForChanges(c, ds, ve, init) ==
    [c EXCEPT !.apply = ~Disks_hasChanges(ds, init) \/ Disks_hasValidationErrors(ds, ve),
              !.revert = ~Disks_hasChanges(ds, init) /\ ~Disks_hasValidationErrors(ds, ve),
              !.defaults = FALSE]

\* EditNodeDisksScreen.render: the template, then renderDisks and
\* checkForChanges unless the loading deferred is pending.
Disks_render_ctl(ds, ve, init, ld, locked) ==
    IF ld # "pending"
    THEN Disks_checkForChanges(Template(locked), ds, ve, init)
    ELSE Template(locked)

\* ------------------------------------------------------------ construction

\* The tab as constructed: screen is null, nothing is shown.
NoTab == [screen |-> 0, shown |-> 0, made |-> 0, fades |-> {}, torn |-> {}]

\* No node list screen polls.
NoPoll == [timers |-> 0, fetching |-> EmptyBag, calls |-> 0]

\* No roles or delete panel is shown.
NoPanel == [checked |-> {}, assign |-> TRUE, delete |-> TRUE]

\* The state after tab.changeScreen has constructed and rendered the screen:
\* the node exists and has a role, the initial fetches are in flight, the
\* template is rendered with the lock of the moment.
InitSession(nodeStates, clusterStatuses, deploys) ==
    /\ screen \in {"disks", "interfaces"}
    /\ node \in nodeStates
    /\ cluster \in [status : clusterStatuses, deploy : deploys]
    /\ loading = "pending"
    /\ fetches = IF screen = "disks" THEN {"node", "volumes", "disks"}
                 ELSE {"interfaces", "network_configuration"}
    /\ listening = FALSE
    /\ disks = EmptyCollection
    /\ volErr = EmptyCollection
    /\ diskErr = EmptyCollection
    /\ interfaces = EmptyCollection
    /\ draggedNetworks = None
    /\ sortDisabled = EmptyCollection
    /\ initialData = None
    /\ input = EmptyCollection
    /\ formOpen = EmptyCollection
    /\ ctl = Template(isLocked(screen, node, cluster))
    /\ commits = EmptyBag
    /\ defaults = 0
    /\ outcome = "none"
    /\ interrupted = FALSE
    /\ tornDown = FALSE
    /\ nodes = EmptyCollection
    /\ panel = NoPanel
    /\ bulk = EmptyBag
    /\ tab = NoTab
    /\ poll = NoPoll

Init == InitSession(SessionNodeStates, SessionClusterStatuses, {FALSE})

\* ------------------------------------------------- disk screen: operations
\* The operator clicks and types on a loaded screen.

\* disks.reset(data, {parse: true}) followed by the 'reset' handler (render)
\* when it is bound.  locked is isLocked() at the time of the render.
Disks_reset(data, locked) ==
    /\ disks' = data
    /\ volErr' = NoVolErr(data)
    /\ diskErr' = NoDiskErr(data)
    /\ IF listening
       THEN /\ ctl' = Disks_render_ctl(data, NoVolErr(data), initialData, loading, locked)
            /\ input' = NodeDisk_render_input(data)
            /\ formOpen' = NodeDisk_render_form(data)
       ELSE UNCHANGED <<ctl, input, formOpen>>

\* A revert that resets the collection to its own content.
Disks_revertChanges_live(locked) == Disks_reset(disks, locked)

\* EditNodeDisksScreen.revertChanges: _.cloneDeep(undefined) resets to nothing.
Disks_revertChanges(locked) ==
    Disks_reset(IF initialData.some THEN initialData.val ELSE EmptyCollection, locked)

\* A done callback bound to the disks fetch alone.
Disks_FetchDone_first(f) ==
    /\ screen = "disks" /\ loading = "pending" /\ f \in fetches
    /\ fetches' = fetches \ {f}
    /\ LET ds == IF f = "disks" THEN ServerDisks ELSE disks
           ve == IF f = "disks" THEN NoVolErr(ServerDisks) ELSE volErr
           de == IF f = "disks" THEN NoDiskErr(ServerDisks) ELSE diskErr
       IN /\ disks' = ds /\ volErr' = ve /\ diskErr' = de
          /\ IF f = "disks"
             THEN /\ loading' = "resolved"
                  /\ initialData' = Some(ds)
                  /\ ctl' = Disks_render_ctl(ds, ve, Some(ds), "resolved",
                                             Disks_isLocked(node, cluster))
                  /\ input' = NodeDisk_render_input(ds)
                  /\ formOpen' = NodeDisk_render_form(ds)
                  /\ listening' = TRUE
             ELSE UNCHANGED <<loading, initialData, ctl, input, formOpen, listening>>
    /\ outcome' = "none"
    /\ UNCHANGED <<screen, feedVars, ifcVars, commits, defaults>>
    /\ UNCHANGED histVars

\* One of the three initial fetches answers.  The disks fetch fills the
\* collection; the last answer runs the done callback of $.when: capture the
\* baseline, render, bind the collection's handlers.
Disks_FetchDone(f) ==
    /\ screen = "disks" /\ loading = "pending" /\ f \in fetches
    /\ fetches' = fetches \ {f}
    /\ LET ds == IF f = "disks" THEN ServerDisks ELSE disks
           ve == IF f = "disks" THEN NoVolErr(ServerDisks) ELSE volErr
           de == IF f = "disks" THEN NoDiskErr(ServerDisks) ELSE diskErr
       IN /\ disks' = ds /\ volErr' = ve /\ diskErr' = de
          /\ IF fetches' = {}
             THEN /\ loading' = "resolved"
                  /\ initialData' = Some(ds)
                  /\ ctl' = Disks_render_ctl(ds, ve, Some(ds), "resolved",
                                             Disks_isLocked(node, cluster))
                  /\ input' = NodeDisk_render_input(ds)
                  /\ formOpen' = NodeDisk_render_form(ds)
                  /\ listening' = TRUE
             ELSE UNCHANGED <<loading, initialData, ctl, input, formOpen, listening>>
    /\ outcome' = "none"
    /\ UNCHANGED <<screen, feedVars, ifcVars, commits, defaults>>
    /\ UNCHANGED histVars

\* An initial fetch fails: goToNodeList.
Disks_FetchFail(f) ==
    /\ screen = "disks" /\ loading = "pending" /\ f \in fetches
    /\ fetches' = fetches \ {f}
    /\ loading' = "rejected"
    /\ screen' = "list"
    /\ outcome' = "none"
    /\ UNCHANGED <<feedVars, listening, diskVars, ifcVars, initialData, ctl,
                   commits, defaults>>
    /\ UNCHANGED histVars

\* NodeDisk.toggleEditDiskForm
toggleEditDiskForm(d) ==
    /\ screen = "disks" /\ loading = "resolved" /\ d \in DOMAIN formOpen
    /\ ~Disks_isLocked(node, cluster)
    /\ formOpen' = [formOpen EXCEPT ![d] = ~@]
    /\ outcome' = "none"
    /\ UNCHANGED <<screen, feedVars, loading, fetches, listening, disks, volErr,
                   diskErr, ifcVars, initialData, input, ctl, commits, defaults>>
    /\ UNCHANGED histVars

\* NodeDisk.updateDisks after the input of volume v on disk d got the text t.
updateDisks(d, v, t) ==
    LET inp == [input EXCEPT ![d][v] = t]
        ds == updateDisks_disks(disks, inp)
        ve == updateDisks_volErr(disks, inp)
    IN /\ input' = inp
       /\ disks' = ds
       /\ volErr' = ve
       /\ diskErr' = updateDisks_diskErr(disks, inp)
       /\ ctl' = Disks_checkForChanges(ctl, ds, ve, initialData)
       /\ outcome' = "none"
       /\ UNCHANGED <<screen, feedVars, loading, fetches, listening, ifcVars,
                      initialData, formOpen, commits, defaults, histVars>>

\* The operator types into an enabled input of an expanded form.
Keyup(d, v, t) ==
    /\ screen = "disks" /\ loading = "resolved"
    /\ d \in DOMAIN disks /\ v \in DOMAIN disks[d].volumes
    /\ formOpen[d] /\ ~ctl.inputs
    /\ t # input[d][v]
    /\ updateDisks(d, v, t)

\* A use-all that forgets to skip the volume itself.
useAllAllowedSpace_noSkip(d, v) ==
    /\ screen = "disks" /\ loading = "resolved"
    /\ d \in DOMAIN disks /\ v \in DOMAIN disks[d].volumes
    /\ formOpen[d]
    /\ LET free == getUnallocatedSpace(disks[d], {})
       IN updateDisks(d, v, FormatSize(IF free > 0 THEN free ELSE 0))

\* NodeDisk.useAllAllowedSpace
useAllAllowedSpace(d, v) ==
    /\ screen = "disks" /\ loading = "resolved"
    /\ d \in DOMAIN disks /\ v \in DOMAIN disks[d].volumes
    /\ formOpen[d]
    /\ LET free == getUnallocatedSpace(disks[d], {v})
       IN updateDisks(d, v, FormatSize(IF free > 0 THEN free ELSE 0))

\* NodeDisk.deleteVolume: the close button shows for a volume whose minimal
\* size is not positive.
deleteVolume(d, v) ==
    /\ screen = "disks" /\ loading = "resolved"
    /\ d \in DOMAIN disks /\ v \in DOMAIN disks[d].volumes
    /\ formOpen[d]
    /\ getMinimalSize(getVolumeMinimum(v)) <= 0
    /\ updateDisks(d, v, FormatSize(0))

\* EditNodeDisksScreen.loadDefaults
Disks_loadDefaults ==
    /\ screen = "disks" /\ loading = "resolved" /\ ~ctl.defaults
    /\ defaults < MaxDefaults
    /\ ctl' = disableControls(TRUE, Disks_isLocked(node, cluster))
    /\ defaults' = defaults + 1
    /\ outcome' = "none"
    /\ UNCHANGED <<screen, feedVars, loading, fetches, listening, diskVars,
                   ifcVars, initialData, commits>>
    /\ UNCHANGED histVars

\* The defaults fetch answers: collection.set merges the answer into the
\* collection (each disk model is kept and gets a new volumes collection),
\* then 'sync' runs render when it is bound.
Disks_DefaultsDone(data) ==
    /\ screen = "disks" /\ defaults > 0
    /\ defaults' = defaults - 1
    /\ disks' = data
    /\ volErr' = NoVolErr(data)
    /\ diskErr' = [d \in DOMAIN data |-> IF d \in DOMAIN diskErr THEN diskErr[d] ELSE FALSE]
    /\ IF listening
       THEN /\ ctl' = Disks_render_ctl(data, NoVolErr(data), initialData, loading,
                                       Disks_isLocked(node, cluster))
            /\ input' = NodeDisk_render_input(data)
            /\ formOpen' = NodeDisk_render_form(data)
       ELSE UNCHANGED <<ctl, input, formOpen>>
    /\ outcome' = "none"
    /\ UNCHANGED <<screen, feedVars, loading, fetches, listening, ifcVars,
                   initialData, commits>>
    /\ UNCHANGED histVars

\* The defaults fetch fails: 'error' runs checkForChanges when it is bound.
Disks_DefaultsFail ==
    /\ screen = "disks" /\ defaults > 0
    /\ defaults' = defaults - 1
    /\ ctl' = IF listening THEN Disks_checkForChanges(ctl, disks, volErr, initialData)
              ELSE ctl
    /\ outcome' = "none"
    /\ UNCHANGED <<screen, feedVars, loading, fetches, listening, diskVars,
                   ifcVars, initialData, commits>>
    /\ UNCHANGED histVars

\* The operator clicks the enabled revert button.
Disks_ClickRevert ==
    /\ screen = "disks" /\ loading = "resolved" /\ ~ctl.revert
    /\ Disks_revertChanges(Disks_isLocked(node, cluster))
    /\ outcome' = "none"
    /\ UNCHANGED <<screen, feedVars, loading, fetches, listening, ifcVars,
                   initialData, commits, defaults>>
    /\ UNCHANGED histVars

\* applyChanges that disables the controls before it looks for validation
\* errors.
Disks_applyChanges_disableFirst ==
    IF Disks_hasValidationErrors(disks, volErr)
    THEN /\ outcome' = "rejected"
         /\ ctl' = disableControls(TRUE, isLocked(screen, node, cluster))
         /\ UNCHANGED commits
    ELSE /\ BagCardinality(commits) < MaxCommits
         /\ ctl' = disableControls(TRUE, isLocked(screen, node, cluster))
         /\ commits' = commits (+) SetToBag({[sent |-> disks]})
         /\ outcome' = "pending"

\* EditNodeDisksScreen.applyChanges
Disks_applyChanges ==
    IF Disks_hasValidationErrors(disks, volErr)
    THEN /\ outcome' = "rejected"
         /\ UNCHANGED <<ctl, commits>>
    ELSE /\ BagCardinality(commits) < MaxCommits
         /\ ctl' = disableControls(TRUE, Disks_isLocked(node, cluster))
         /\ commits' = commits (+) SetToBag({[sent |-> disks]})
         /\ outcome' = "pending"

\* The operator clicks the enabled apply button.
Disks_ClickApply ==
    /\ screen = "disks" /\ loading = "resolved" /\ ~ctl.apply
    /\ Disks_applyChanges
    /\ UNCHANGED <<screen, feedVars, loading, fetches, listening, diskVars,
                   ifcVars, initialData, defaults>>
    /\ UNCHANGED histVars

\* applyChanges of a loaded screen is called as a method while the button is
\* disabled.
Disks_CallApply ==
    /\ screen = "disks" /\ loading = "resolved" /\ ctl.apply
    /\ Disks_applyChanges
    /\ UNCHANGED <<screen, feedVars, loading, fetches, listening, diskVars,
                   ifcVars, initialData, defaults>>
    /\ UNCHANGED histVars

\* The requests in flight without one answered request r.
Answered(r) == commits (-) SetToBag({r})

\* A done callback that captures what the request carried.
Disks_SyncDone_sent(r) ==
    /\ screen = "disks" /\ BagIn(r, commits)
    /\ commits' = Answered(r)
    /\ initialData' = Some(r.sent)
    /\ ctl' = Disks_render_ctl(disks, volErr, Some(r.sent), loading,
                               Disks_isLocked(node, cluster))
    /\ input' = NodeDisk_render_input(disks)
    /\ formOpen' = NodeDisk_render_form(disks)
    /\ outcome' = "none"
    /\ UNCHANGED <<screen, feedVars, loading, fetches, listening, disks, volErr,
                   diskErr, ifcVars, defaults>>
    /\ UNCHANGED histVars

\* The update request r succeeds: the done callback captures the baseline
\* from the live collection and renders.
Disks_SyncDone(r) ==
    /\ screen = "disks" /\ BagIn(r, commits)
    /\ commits' = Answered(r)
    /\ initialData' = Some(disks)
    /\ ctl' = Disks_render_ctl(disks, volErr, Some(disks), loading,
                               Disks_isLocked(node, cluster))
    /\ input' = NodeDisk_render_input(disks)
    /\ formOpen' = NodeDisk_render_form(disks)
    /\ outcome' = "none"
    /\ UNCHANGED <<screen, feedVars, loading, fetches, listening, disks, volErr,
                   diskErr, ifcVars, defaults>>
    /\ UNCHANGED histVars

\* A fail callback that sends the request again.
Disks_SyncFail_retry(r) ==
    /\ screen = "disks" /\ BagIn(r, commits)
    /\ commits' = Answered(r) (+) SetToBag({[sent |-> disks]})
    /\ ctl' = Disks_checkForChanges(ctl, disks, volErr, initialData)
    /\ outcome' = "none"
    /\ UNCHANGED <<screen, feedVars, loading, fetches, listening, diskVars,
                   ifcVars, initialData, defaults>>
    /\ UNCHANGED histVars

\* The update request r fails: the fail callback runs checkForChanges.
Disks_SyncFail(r) ==
    /\ screen = "disks" /\ BagIn(r, commits)
    /\ commits' = Answered(r)
    /\ ctl' = Disks_checkForChanges(ctl, disks, volErr, initialData)
    /\ outcome' = "none"
    /\ UNCHANGED <<screen, feedVars, loading, fetches, listening, diskVars,
                   ifcVars, initialData, defaults>>
    /\ UNCHANGED histVars

\* -------------------------------------------------------- interface data

IfcIds == {"eth0", "eth1"}
Networks == {"mgmt", "stor"}

\* The assignment the server reports for the node.
ServerInterfaces ==
    [i \in IfcIds |-> IF i = "eth0" THEN <<"mgmt", "stor">> ELSE << >>]

\* The assignment the server suggests as defaults.
DefaultInterfaces ==
    [i \in IfcIds |-> IF i = "eth0" THEN <<"mgmt">> ELSE <<"stor">>]

Range(q) == {q[j] : j \in 1..Len(q)}

\* The elements of q that are (keep = TRUE) or are not (keep = FALSE) in S,
\* in the order of q.
RECURSIVE Filter(_, _, _)
Filter(q, S, keep) ==
    IF q = << >> THEN << >>
    ELSE (IF (Head(q) \in S) = keep THEN <<Head(q)>> ELSE << >>)
             \o Filter(Tail(q), S, keep)

\* EditNodeInterfacesScreen.hasChanges
Interfaces_hasChanges(ifs, init) == Some(ifs) # init

\* EditNodeInterfacesScreen.checkForChanges
Interfaces_checkForChanges(c, ifs, init, locked) ==
    [c EXCEPT !.apply = locked \/ ~Interfaces_hasChanges(ifs, init),
              !.revert = locked \/ ~Interfaces_hasChanges(ifs, init)]

\* NodeInterface.render of every interface (renderInterfaces): each sortable
\* is disabled when the screen is locked.
renderInterfaces(ifs, locked) == [i \in DOMAIN ifs |-> locked]

\* -------------------------------------------- interface screen: operations

\* interfaces.reset(data) followed by the 'reset' handlers (renderInterfaces,
\* checkForChanges) when they are bound.
Interfaces_reset(c, data, locked) ==
    /\ interfaces' = data
    /\ IF listening
       THEN /\ sortDisabled' = renderInterfaces(data, locked)
            /\ ctl' = Interfaces_checkForChanges(c, data, initialData, locked)
       ELSE /\ ctl' = c
            /\ UNCHANGED sortDisabled

\* One of the two initial fetches answers; the last answer runs the done
\* callback of $.when.
Interfaces_FetchDone(f) ==
    /\ screen = "interfaces" /\ loading = "pending" /\ f \in fetches
    /\ fetches' = fetches \ {f}
    /\ LET ifs == IF f = "interfaces" THEN ServerInterfaces ELSE interfaces
           locked == Interfaces_isLocked(node, cluster)
       IN /\ interfaces' = ifs
          /\ IF fetches' = {}
             THEN /\ loading' = "resolved"
                  /\ initialData' = Some(ifs)
                  /\ listening' = TRUE
                  /\ ctl' = Interfaces_checkForChanges(ctl, ifs, Some(ifs), locked)
                  /\ sortDisabled' = renderInterfaces(ifs, locked)
             ELSE UNCHANGED <<loading, initialData, listening, ctl, sortDisabled>>
    /\ outcome' = "none"
    /\ UNCHANGED <<screen, feedVars, diskVars, draggedNetworks, commits, defaults>>
    /\ UNCHANGED histVars

\* An initial fetch fails: goToNodeList.
Interfaces_FetchFail(f) ==
    /\ screen = "interfaces" /\ loading = "pending" /\ f \in fetches
    /\ fetches' = fetches \ {f}
    /\ loading' = "rejected"
    /\ screen' = "list"
    /\ outcome' = "none"
    /\ UNCHANGED <<feedVars, listening, diskVars, ifcVars, initialData, ctl,
                   commits, defaults>>
    /\ UNCHANGED histVars

\* NodeInterface.dragStart on interface ifc for the dragged names: the named
\* networks leave the interface ...
dragStart_interfaces(ifs, ifc, names) ==
    [ifs EXCEPT ![ifc] = Filter(@, names, FALSE)]

\* ... and are staged in screen.draggedNetworks, in the interface's order.
dragStart_staged(ifs, ifc, names) == Some(Filter(ifs[ifc], names, TRUE))

\* The order in which a collection of assigned networks keeps its members.
NetworkOrder == <<"mgmt", "stor">>

\* InterfaceNetworks.add: assigned_networks is a set of networks, so the
\* collection holds every member once, in the collection's own order; an
\* entry that names no network comes first.
InterfaceNetworks_add(q, nets) ==
    Filter(q \o nets, Range(NetworkOrder), FALSE)
        \o Filter(NetworkOrder, Range(q) \cup Range(nets), TRUE)

\* A dragStop whose add(null) adds an entry without attributes.
dragStop_interfaces_addNull(ifs, ifc, type, staged) ==
    IF type = "sortreceive"
    THEN [ifs EXCEPT ![ifc] = InterfaceNetworks_add(@, IF staged.some THEN staged.val
                                                       ELSE <<"null">>)]
    ELSE ifs

\* A dragStop whose add puts the networks behind the ones already there.
dragStop_interfaces_append(ifs, ifc, type, staged) ==
    IF type = "sortreceive" /\ staged.some
    THEN [ifs EXCEPT ![ifc] = @ \o Filter(staged.val, Range(@), FALSE)]
    ELSE ifs

\* NodeInterface.dragStop on interface ifc: on sortreceive the staged
\* networks are added to the interface (add(null) adds nothing, a network
\* already there is not added again); afterwards the stage is null.
dragStop_interfaces(ifs, ifc, type, staged) ==
    IF type = "sortreceive" /\ staged.some
    THEN [ifs EXCEPT ![ifc] = InterfaceNetworks_add(@, staged.val)]
    ELSE ifs

\* The operator drops the group of networks names, dragged out of interface
\* src, on interface tgt.  On the drop the sortable triggers, in one turn,
\* sortremove on src, sortreceive on tgt and sortstop on src; a drop on src
\* itself triggers sortstop alone.  Every 'add' and 'remove' runs the
\* screen's checkForChanges; dragStop renders its interface again.
Drop(src, names, tgt) ==
    /\ screen = "interfaces" /\ loading = "resolved"
    /\ src \in DOMAIN interfaces /\ tgt \in DOMAIN interfaces
    /\ ~sortDisabled[src] /\ ~sortDisabled[tgt]
    /\ names # {} /\ names \subseteq Range(interfaces[src])
    /\ LET locked == Interfaces_isLocked(node, cluster)
           removed == dragStart_interfaces(interfaces, src, names)
           staged == dragStart_staged(interfaces, src, names)
           received == dragStop_interfaces(removed, tgt, "sortreceive", staged)
           ifs == IF src = tgt
                  THEN dragStop_interfaces(interfaces, src, "sortstop", draggedNetworks)
                  ELSE dragStop_interfaces(received, src, "sortstop", None)
       IN /\ interfaces' = ifs
          /\ ctl' = IF src = tgt THEN ctl
                    ELSE Interfaces_checkForChanges(ctl, ifs, initialData, locked)
          /\ sortDisabled' = [i \in DOMAIN sortDisabled |->
                                 IF i \in {src, tgt} THEN locked ELSE sortDisabled[i]]
    /\ draggedNetworks' = None
    /\ outcome' = "none"
    /\ UNCHANGED <<screen, feedVars, loading, fetches, listening, diskVars,
                   initialData, commits, defaults>>
    /\ UNCHANGED histVars

\* EditNodeInterfacesScreen.loadDefaults
Interfaces_loadDefaults ==
    /\ screen = "interfaces" /\ loading = "resolved" /\ ~ctl.defaults
    /\ defaults < MaxDefaults
    /\ ctl' = disableControls(TRUE, Interfaces_isLocked(node, cluster))
    /\ defaults' = defaults + 1
    /\ outcome' = "none"
    /\ UNCHANGED <<screen, feedVars, loading, fetches, listening, diskVars,
                   ifcVars, initialData, commits>>
    /\ UNCHANGED histVars

\* A defaults handling that merges the fetched assignment into the live one.
Interfaces_DefaultsDone_merge(data) ==
    /\ screen = "interfaces" /\ defaults > 0
    /\ defaults' = defaults - 1
    /\ LET locked == Interfaces_isLocked(node, cluster)
           merged == [i \in DOMAIN data |->
                         IF i \in DOMAIN interfaces
                         THEN interfaces[i] \o Filter(data[i], Range(interfaces[i]), FALSE)
                         ELSE data[i]]
       IN Interfaces_reset(
              Interfaces_checkForChanges(disableControls(FALSE, locked), merged,
                                         initialData, locked),
              merged, locked)
    /\ outcome' = "none"
    /\ UNCHANGED <<screen, feedVars, loading, fetches, listening, diskVars,
                   draggedNetworks, initialData, commits, histVars>>

\* A defaults handling that takes the fetched assignment as the new baseline.
Interfaces_DefaultsDone_rebase(data) ==
    /\ screen = "interfaces" /\ defaults > 0
    /\ defaults' = defaults - 1
    /\ initialData' = Some(data)
    /\ interfaces' = data
    /\ sortDisabled' = IF listening
                       THEN renderInterfaces(data, Interfaces_isLocked(node, cluster))
                       ELSE sortDisabled
    /\ ctl' = Interfaces_checkForChanges(
                  disableControls(FALSE, Interfaces_isLocked(node, cluster)), data,
                  Some(data), Interfaces_isLocked(node, cluster))
    /\ outcome' = "none"
    /\ UNCHANGED <<screen, feedVars, loading, fetches, listening, diskVars,
                   draggedNetworks, commits, histVars>>

\* The defaults fetch answers: reset, then the done callback enables the
\* controls and runs checkForChanges.
Interfaces_DefaultsDone(data) ==
    /\ screen = "interfaces" /\ defaults > 0
    /\ defaults' = defaults - 1
    /\ LET locked == Interfaces_isLocked(node, cluster)
       IN Interfaces_reset(
              Interfaces_checkForChanges(disableControls(FALSE, locked), data,
                                         initialData, locked),
              data, locked)
    /\ outcome' = "none"
    /\ UNCHANGED <<screen, feedVars, loading, fetches, listening, diskVars,
                   draggedNetworks, initialData, commits>>
    /\ UNCHANGED histVars

\* The defaults fetch fails: the fail callback enables the controls.
Interfaces_DefaultsFail ==
    /\ screen = "interfaces" /\ defaults > 0
    /\ defaults' = defaults - 1
    /\ ctl' = disableControls(FALSE, Interfaces_isLocked(node, cluster))
    /\ outcome' = "none"
    /\ UNCHANGED <<screen, feedVars, loading, fetches, listening, diskVars,
                   ifcVars, initialData, commits>>
    /\ UNCHANGED histVars

\* EditNodeInterfacesScreen.revertChanges
Interfaces_revertChanges(c, locked) ==
    Interfaces_reset(c, IF initialData.some THEN initialData.val ELSE EmptyCollection,
                     locked)

\* The operator clicks the enabled revert button.
Interfaces_ClickRevert ==
    /\ screen = "interfaces" /\ loading = "resolved" /\ ~ctl.revert
    /\ Interfaces_revertChanges(ctl, Interfaces_isLocked(node, cluster))
    /\ outcome' = "none"
    /\ UNCHANGED <<screen, feedVars, loading, fetches, listening, diskVars,
                   draggedNetworks, initialData, commits, defaults>>
    /\ UNCHANGED histVars

\* EditNodeInterfacesScreen.applyChanges
Interfaces_applyChanges ==
    /\ BagCardinality(commits) < MaxCommits
    /\ ctl' = disableControls(TRUE, Interfaces_isLocked(node, cluster))
    /\ commits' = commits (+) SetToBag({[sent |-> interfaces]})
    /\ outcome' = "pending"

\* The operator clicks the enabled apply button.
Interfaces_ClickApply ==
    /\ screen = "interfaces" /\ loading = "resolved" /\ ~ctl.apply
    /\ Interfaces_applyChanges
    /\ UNCHANGED <<screen, feedVars, loading, fetches, listening, diskVars,
                   ifcVars, initialData, defaults>>
    /\ UNCHANGED histVars

\* applyChanges of a loaded screen is called as a method while the button is
\* disabled.
Interfaces_CallApply ==
    /\ screen = "interfaces" /\ loading = "resolved" /\ ctl.apply
    /\ Interfaces_applyChanges
    /\ UNCHANGED <<screen, feedVars, loading, fetches, listening, diskVars,
                   ifcVars, initialData, defaults>>
    /\ UNCHANGED histVars

\* The controls after the always callback of applyChanges.
Interfaces_always(init) ==
    LET locked == Interfaces_isLocked(node, cluster)
    IN Interfaces_checkForChanges(disableControls(FALSE, locked), interfaces, init, locked)

\* The update request r succeeds: the done callback captures the baseline
\* from the live collection.
Interfaces_SyncDone(r) ==
    /\ screen = "interfaces" /\ BagIn(r, commits)
    /\ commits' = Answered(r)
    /\ initialData' = Some(interfaces)
    /\ ctl' = Interfaces_always(Some(interfaces))
    /\ outcome' = "none"
    /\ UNCHANGED <<screen, feedVars, loading, fetches, listening, diskVars,
                   ifcVars, defaults>>
    /\ UNCHANGED histVars

\* The update request r fails.
Interfaces_SyncFail(r) ==
    /\ screen = "interfaces" /\ BagIn(r, commits)
    /\ commits' = Answered(r)
    /\ ctl' = Interfaces_always(initialData)
    /\ outcome' = "none"
    /\ UNCHANGED <<screen, feedVars, loading, fetches, listening, diskVars,
                   ifcVars, initialData, defaults>>
    /\ UNCHANGED histVars

\* ------------------------------------------------------------ status feed

\* The node's attributes change with a fetch of the node; no handler of the
\* edit screens is bound to them.
NodeChange(nodeStates) ==
    /\ \E n \in nodeStates \ {node} : node' = n
    /\ outcome' = "none"
    /\ UNCHANGED <<screen, cluster, loading, fetches, listening, diskVars, ifcVars,
                   initialData, ctl, commits, defaults>>
    /\ UNCHANGED histVars

\* A deploy task of the cluster starts or stops running; no handler is bound.
TaskChange ==
    /\ cluster' = [cluster EXCEPT !.deploy = ~@]
    /\ outcome' = "none"
    /\ UNCHANGED <<screen, node, loading, fetches, listening, diskVars, ifcVars,
                   initialData, ctl, commits, defaults>>
    /\ UNCHANGED histVars

\* A change:status handler that renders without reverting.
Interfaces_onStatus_renderOnly(locked) ==
    /\ interfaces' = interfaces
    /\ ctl' = Template(locked)
    /\ sortDisabled' = IF loading # "pending"
                       THEN renderInterfaces(interfaces', locked)
                       ELSE sortDisabled
    /\ UNCHANGED <<draggedNetworks, diskVars>>

\* The change:status handler of the interface screen: revertChanges, then
\* render (the template, and renderInterfaces unless loading is pending).
Interfaces_onStatus(locked) ==
    /\ interfaces' = IF initialData.some THEN initialData.val ELSE EmptyCollection
    /\ ctl' = Template(locked)
    /\ sortDisabled' = IF loading # "pending"
                       THEN renderInterfaces(interfaces', locked)
                       ELSE sortDisabled
    /\ UNCHANGED <<draggedNetworks, diskVars>>

\* The cluster's status changes: change:status runs the handler the open
\* edit screen bound in initialize.
ClusterStatusChange(statuses) ==
    /\ \E s \in statuses \ {cluster.status} : cluster' = [cluster EXCEPT !.status = s]
    /\ CASE screen = "disks" ->
                /\ Disks_revertChanges(Disks_isLocked(node, cluster'))
                /\ UNCHANGED ifcVars
         [] screen = "interfaces" ->
                Interfaces_onStatus(Interfaces_isLocked(node, cluster'))
         [] OTHER -> UNCHANGED <<diskVars, ifcVars, ctl>>
    /\ outcome' = "none"
    /\ interrupted' = draggedNetworks.some
    /\ UNCHANGED <<panelVars, listVars>>
    /\ UNCHANGED <<screen, node, loading, fetches, listening, initialData, commits,
                   defaults, tornDown>>

\* ------------------------------------------- sortable events, one by one
\* The events hash of NodeInterface binds sortremove to dragStart and
\* sortreceive and sortstop to dragStop; the handlers take the events as they
\* come, on whichever rendered interface the sortable triggers them.

\* sortremove on interface ifc for a dragged group holding names: dragStart.
\* Each removed network runs checkForChanges.
sortremove(ifc, names) ==
    /\ screen = "interfaces" /\ loading = "resolved"
    /\ ifc \in DOMAIN interfaces /\ ifc \in DOMAIN sortDisabled
    /\ ~sortDisabled[ifc]
    /\ interfaces' = dragStart_interfaces(interfaces, ifc, names)
    /\ draggedNetworks' = dragStart_staged(interfaces, ifc, names)
    /\ ctl' = IF interfaces' # interfaces
              THEN Interfaces_checkForChanges(ctl, interfaces', initialData,
                                              Interfaces_isLocked(node, cluster))
              ELSE ctl
    /\ interrupted' = FALSE
    /\ UNCHANGED <<panelVars, listVars>>
    /\ outcome' = "none"
    /\ UNCHANGED <<screen, feedVars, loading, fetches, listening, diskVars,
                   sortDisabled, initialData, commits, defaults, tornDown>>

\* sortreceive or sortstop on interface ifc: dragStop.  Each added network
\* runs checkForChanges; the interface is rendered again.
dragStop(ifc, type) ==
    /\ screen = "interfaces" /\ loading = "resolved"
    /\ ifc \in DOMAIN interfaces /\ ifc \in DOMAIN sortDisabled
    /\ ~sortDisabled[ifc]
    /\ interfaces' = dragStop_interfaces(interfaces, ifc, type, draggedNetworks)
    /\ ctl' = IF interfaces' # interfaces
              THEN Interfaces_checkForChanges(ctl, interfaces', initialData,
                                              Interfaces_isLocked(node, cluster))
              ELSE ctl
    /\ sortDisabled' = [sortDisabled EXCEPT ![ifc] = Interfaces_isLocked(node, cluster)]
    /\ draggedNetworks' = None
    /\ interrupted' = FALSE
    /\ UNCHANGED <<panelVars, listVars>>
    /\ outcome' = "none"
    /\ UNCHANGED <<screen, feedVars, loading, fetches, listening, diskVars,
                   initialData, commits, defaults, tornDown>>

sortreceive(ifc) == dragStop(ifc, "sortreceive")
sortstop(ifc) == dragStop(ifc, "sortstop")

\* ------------------------------------------------------------- navigation

\* NodesTab.changeScreen: the tab constructs another screen and tears the
\* open edit screen down.  The requests of the old screen stay in flight and
\* their callbacks stay bound to it.
changeScreen ==
    /\ screen \in {"disks", "interfaces"} /\ ~tornDown
    /\ tornDown' = TRUE
    /\ UNCHANGED <<panelVars, listVars>>
    /\ outcome' = "none"
    /\ UNCHANGED <<screen, feedVars, loading, fetches, listening, diskVars, ifcVars,
                   initialData, ctl, commits, defaults, interrupted>>

\* ---------------------------------------------------------- specifications

FeedNode == NodeChange(SessionNodeStates)
FeedCluster == ClusterStatusChange(SessionClusterStatuses)

DisksNext ==
    \/ \E f \in {"node", "volumes", "disks"} : Disks_FetchDone(f)
    \/ \E f \in {"node", "volumes", "disks"} : Disks_FetchFail(f)
    \/ \E d \in DiskIds : toggleEditDiskForm(d)
    \/ \E d \in DiskIds, v \in VolumeNames, t \in TypedTexts : Keyup(d, v, t)
    \/ \E d \in DiskIds, v \in VolumeNames : useAllAllowedSpace(d, v)
    \/ \E d \in DiskIds, v \in VolumeNames : deleteVolume(d, v)
    \/ Disks_loadDefaults
    \/ \E data \in DefaultsSet : Disks_DefaultsDone(data)
    \/ Disks_DefaultsFail
    \/ Disks_ClickRevert
    \/ Disks_ClickApply
    \/ \E r \in BagToSet(commits) : Disks_SyncDone(r)
    \/ \E r \in BagToSet(commits) : Disks_SyncFail(r)

InterfacesNext ==
    \/ \E f \in {"interfaces", "network_configuration"} : Interfaces_FetchDone(f)
    \/ \E f \in {"interfaces", "network_configuration"} : Interfaces_FetchFail(f)
    \/ \E src \in IfcIds, tgt \in IfcIds, names \in SUBSET Networks : Drop(src, names, tgt)
    \/ Interfaces_loadDefaults
    \/ Interfaces_DefaultsDone(DefaultInterfaces)
    \/ Interfaces_DefaultsFail
    \/ Interfaces_ClickRevert
    \/ Interfaces_ClickApply
    \/ \E r \in BagToSet(commits) : Interfaces_SyncDone(r)
    \/ \E r \in BagToSet(commits) : Interfaces_SyncFail(r)

Next ==
    \/ DisksNext
    \/ InterfacesNext
    \/ FeedNode
    \/ FeedCluster

\* The screens driven by the operator's gestures, the answers of the server
\* and the status feed.
Spec == Init /\ [][Next]_vars

\* The same, with applyChanges also called as a method.
NextCall ==
    \/ Next
    \/ Disks_CallApply
    \/ Interfaces_CallApply

SpecCall == Init /\ [][NextCall]_vars

\* The lock policies over every value of the fields they read: a freshly
\* constructed screen under the status feed.
LockNode == NodeChange(AllNodeStates)
LockTask == TaskChange
LockCluster == ClusterStatusChange(ClusterStatuses)

InitLock == InitSession(AllNodeStates, ClusterStatuses, BOOLEAN)

NextLock ==
    \/ LockNode
    \/ LockTask
    \/ LockCluster

SpecLock == InitLock /\ [][NextLock]_vars

\* The interface screen with the sortable events delivered one by one.
InitMove == Init /\ screen = "interfaces"

NextMove ==
    \/ \E f \in {"interfaces", "network_configuration"} : Interfaces_FetchDone(f)
    \/ \E i \in IfcIds, names \in (SUBSET Networks) \ {{}} : sortremove(i, names)
    \/ \E i \in IfcIds : sortreceive(i)
    \/ \E i \in IfcIds : sortstop(i)
    \/ Interfaces_loadDefaults
    \/ Interfaces_DefaultsDone(DefaultInterfaces)
    \/ Interfaces_DefaultsFail
    \/ Interfaces_ClickRevert
    \/ FeedNode
    \/ FeedCluster

SpecMove == InitMove /\ [][NextMove]_vars

\* The screens with navigation: an open screen takes the steps of Next or
\* is torn down; the requests of a torn-down screen are still answered.
LateAnswer ==
    \/ \E r \in BagToSet(commits) : Disks_SyncDone(r)
    \/ \E r \in BagToSet(commits) : Disks_SyncFail(r)
    \/ \E data \in DefaultsSet : Disks_DefaultsDone(data)
    \/ Disks_DefaultsFail
    \/ \E r \in BagToSet(commits) : Interfaces_SyncDone(r)
    \/ \E r \in BagToSet(commits) : Interfaces_SyncFail(r)
    \/ Interfaces_DefaultsDone(DefaultInterfaces)
    \/ Interfaces_DefaultsFail

NextNav ==
    \/ ~tornDown /\ Next
    \/ changeScreen
    \/ tornDown /\ LateAnswer

SpecNav == Init /\ [][NextNav]_vars

\* ------------------------------------------------------------------ claims

AnyVolErr == \E d \in DOMAIN volErr : \E v \in DOMAIN volErr[d] : volErr[d][v]
AnyDiskErr == \E d \in DOMAIN diskErr : diskErr[d]
InFlight == BagToSet(commits)
Committing == commits # EmptyBag

\* A disk allocation every disk of which fits and every volume of which is
\* at least 0 and at least its minimum.
ValidAllocation(ds) ==
    \A d \in DOMAIN ds :
        /\ SumOver(ds[d].volumes, DOMAIN ds[d].volumes) <= ds[d].size
        /\ \A v \in DOMAIN ds[d].volumes :
              ds[d].volumes[v] >= 0 /\ ds[d].volumes[v] >= MinSize[v]

\* C1: every disk allocation handed to Backbone.sync by the disk screen is
\* valid: each disk's volumes fit the disk, each volume is at least 0 and at
\* least its minimum.
C1_NoInvalidAllocationSent ==
    screen = "disks" => \A r \in InFlight : ValidAllocation(r.sent)

\* C2: the disk screen is unlocked iff (pending_addition, or status error
\* with error_type provision) and no deploy task runs; a ready node that is
\* not pending addition is locked, and a running deploy always locks.
C2_DiskLockPolicy ==
    /\ ~Disks_isLocked(node, cluster)
          <=> /\ \/ node.pending_addition
                 \/ (node.status = "error" /\ node.error_type = "provision")
              /\ ~cluster.deploy
    /\ (node.status = "ready" /\ ~node.pending_addition) => Disks_isLocked(node, cluster)
    /\ cluster.deploy => Disks_isLocked(node, cluster)

\* C2 witness: a node in error of type provision, not pending addition, no
\* deploy running, on the disk screen: unlocked.
C2_Witness ==
    /\ screen = "disks" /\ ~node.pending_addition
    /\ node.status = "error" /\ node.error_type = "provision"
    /\ ~cluster.deploy
    /\ ~Disks_isLocked(node, cluster)

\* C3: the interface screen is unlocked iff (pending_addition, or the node's
\* own status is error) and no deploy task runs.
C3_InterfaceLockPolicy ==
    ~Interfaces_isLocked(node, cluster)
        <=> /\ node.pending_addition \/ node.status = "error"
            /\ ~cluster.deploy

\* C4: on an open (loaded) edit screen apply, revert and defaults are disabled while
\* the screen is locked and while a commit is in flight; apply and revert are
\* disabled while the screen is neither dirty nor carries validation errors.
C4_ControlsDisabled ==
    (screen \in {"disks", "interfaces"} /\ loading = "resolved") =>
        /\ (isLocked(screen, node, cluster) \/ Committing)
              => ctl.apply /\ ctl.revert /\ ctl.defaults
        /\ (screen = "disks"
              /\ ~Disks_hasChanges(disks, initialData) /\ ~AnyVolErr /\ ~AnyDiskErr)
              => ctl.apply /\ ctl.revert
        /\ (screen = "interfaces"
              /\ ~Interfaces_hasChanges(interfaces, initialData))
              => ctl.apply /\ ctl.revert

\* C5: hasValidationErrors of the disk screen is true iff some disk carries a
\* disk-level mark or some volume carries a volume-level mark.
C5_HasValidationErrorsIffMarked ==
    screen = "disks" =>
        (Disks_hasValidationErrors(disks, volErr) <=> (AnyDiskErr \/ AnyVolErr))

\* C6: an applyChanges call on the disk screen while hasValidationErrors()
\* is true returns a rejected deferred and changes nothing: no
\* request is sent, no control is disabled, and the disks, their marks, the
\* baseline and the session state stay as they were.
C6_RejectedApplyChangesNothing ==
    [][(screen = "disks" /\ Disks_hasValidationErrors(disks, volErr)
           /\ outcome' # "none")
          => /\ outcome' = "rejected"
             /\ UNCHANGED <<commits, ctl, diskVars, initialData, screen, loading,
                            fetches, listening, defaults, feedVars, ifcVars>>]_vars

\* C6 witness: applyChanges has just returned rejected on a disk screen whose
\* hasValidationErrors() is true.
C6_Witness ==
    screen = "disks" /\ Disks_hasValidationErrors(disks, volErr) /\ outcome = "rejected"

\* C7: at most one update request is in flight per screen.
C7_AtMostOneCommit == BagCardinality(commits) <= 1

\* C8: when an update request succeeds, the baseline becomes the
\* configuration that request sent.
C8_BaselineIsWhatWasSent ==
    [][\A r \in InFlight :
          (Disks_SyncDone(r) \/ Interfaces_SyncDone(r)) => initialData' = Some(r.sent)]_vars

\* Every control disableControls had disabled is interactive again on an
\* unlocked screen (apply and revert as far as there is something to apply
\* or revert).
Interactive(c, dirty, errors) ==
    /\ ~c.inputs /\ ~c.ret /\ ~c.defaults
    /\ dirty => ~c.revert
    /\ (dirty /\ ~errors) => ~c.apply

\* C9: when an update request fails, the failure handling leaves the
\* baseline and the live model (the edits) as they are, so hasChanges() keeps
\* its value, and unless the screen is locked every control the commit had
\* disabled is interactive again.
C9_FailedCommitKeepsEdits ==
    [][\A r \in InFlight :
          /\ Disks_SyncFail(r)
                => /\ initialData' = initialData /\ disks' = disks
                   /\ ~Disks_isLocked(node, cluster)
                         => Interactive(ctl', Disks_hasChanges(disks, initialData),
                                        AnyVolErr \/ AnyDiskErr)
          /\ Interfaces_SyncFail(r)
                => /\ initialData' = initialData /\ interfaces' = interfaces
                   /\ ~Interfaces_isLocked(node, cluster)
                         => Interactive(ctl', Interfaces_hasChanges(interfaces, initialData),
                                        FALSE)]_vars

\* C10: a change of the cluster's status while an update request is in
\* flight leaves the live model and the request alone and leaves apply,
\* revert and defaults disabled.
C10_StatusChangeDuringCommit ==
    [][(Committing /\ screen \in {"disks", "interfaces"}
           /\ cluster'.status # cluster.status)
          => /\ UNCHANGED <<disks, interfaces, commits>>
             /\ ctl'.apply /\ ctl'.revert /\ ctl'.defaults]_vars

\* What revertChanges resets the live collection to, given the baseline.
Reverted(init) == IF init.some THEN init.val ELSE EmptyCollection

\* C11: revertChanges on a loaded screen, clicked or called by the status
\* handler, sends no request, leaves the baseline alone and makes the live
\* model equal to the baseline, so hasChanges() is false right afterwards;
\* a second revertChanges would reset to the very same live model.
C11_RevertRestoresBaseline ==
    [][/\ (Disks_ClickRevert \/ (FeedCluster /\ screen = "disks" /\ loading = "resolved"))
            => /\ disks' = initialData.val
               /\ ~Disks_hasChanges(disks', initialData')
               /\ Reverted(initialData') = disks'
               /\ UNCHANGED <<initialData, commits, defaults>>
       /\ (Interfaces_ClickRevert
              \/ (FeedCluster /\ screen = "interfaces" /\ loading = "resolved"))
            => /\ interfaces' = initialData.val
               /\ ~Interfaces_hasChanges(interfaces', initialData')
               /\ Reverted(initialData') = interfaces'
               /\ UNCHANGED <<initialData, commits, defaults>>]_vars

\* C11 witness: the disk screen has been reverted to the baseline while the
\* request that carries the edits is still in flight.
C11_Witness ==
    /\ screen = "disks" /\ loading = "resolved" /\ initialData.some
    /\ disks = initialData.val
    /\ \E r \in InFlight : r.sent # disks

\* C12: the baseline changes only in the step that completes the initial
\* load and in the step in which an update request succeeds; every other
\* step (edits, moves, revert, defaults, failed requests, status changes)
\* leaves it exactly as it was, whatever it does to the live model.
C12_BaselineChangesOnlyOnCapture ==
    [][initialData' # initialData
          => \/ \E f \in fetches :
                   (Disks_FetchDone(f) \/ Interfaces_FetchDone(f)) /\ fetches' = {}
             \/ \E r \in InFlight : Disks_SyncDone(r) \/ Interfaces_SyncDone(r)]_vars

\* C12 witness: on the interface screen the live assignment has been changed
\* after the capture and the baseline still is the loaded assignment.
C12_Witness ==
    /\ screen = "interfaces" /\ loading = "resolved"
    /\ initialData = Some(ServerInterfaces)
    /\ interfaces # ServerInterfaces

\* C13: when a defaults fetch answers, the live model becomes the fetched
\* allocation and nothing else, the baseline stays, and hasChanges() is true
\* iff the fetched allocation differs from the baseline; when the fetch
\* fails, the live model and the baseline stay as they were.
C13_DefaultsReplaceLive ==
    [][/\ \A data \in DefaultsSet :
             Disks_DefaultsDone(data)
                => /\ disks' = data
                   /\ initialData' = initialData
                   /\ Disks_hasChanges(disks', initialData') <=> (Some(data) # initialData)
       /\ Interfaces_DefaultsDone(DefaultInterfaces)
             => /\ interfaces' = DefaultInterfaces
                /\ initialData' = initialData
                /\ Interfaces_hasChanges(interfaces', initialData')
                      <=> (Some(DefaultInterfaces) # initialData)
       /\ Disks_DefaultsFail => UNCHANGED <<disks, initialData>>
       /\ Interfaces_DefaultsFail => UNCHANGED <<interfaces, initialData>>]_vars

\* C13 witness: the disk screen holds a fetched defaults allocation that
\* differs from the loaded baseline; no edit has marked it.
C13_Witness ==
    /\ screen = "disks" /\ loading = "resolved" /\ defaults = 0
    /\ disks = OverDefaultDisks /\ ~AnyDiskErr /\ ~AnyVolErr
    /\ initialData = Some(ServerDisks)
    /\ Disks_hasChanges(disks, initialData)

\* C14: when the defaults fetch of the disk screen answers with an
\* allocation that is not valid (a disk over capacity, a volume below its
\* minimum), the apply button is disabled afterwards and
\* hasValidationErrors(), on which applyChanges refuses, is true.
C14_DefaultsValidatedBeforeCommit ==
    [][\A data \in DefaultsSet :
          (Disks_DefaultsDone(data) /\ loading = "resolved" /\ ~ValidAllocation(data))
             => /\ ctl'.apply
                /\ Disks_hasValidationErrors(disks', volErr')]_vars

\* How many times network n is assigned across the interfaces ifs, and how
\* many times it is staged.
Occ(ifs, n) ==
    SumOver([i \in DOMAIN ifs |-> Cardinality({j \in 1..Len(ifs[i]) : ifs[i][j] = n})],
            DOMAIN ifs)
StagedOcc(st, n) ==
    IF st.some THEN Cardinality({j \in 1..Len(st.val) : st.val[j] = n}) ELSE 0

\* C15: a move keeps the multiset of networks: a begin (dragStart) with
\* nothing staged moves networks from the interfaces to the stage, and an
\* end (dragStop on sortreceive or on sortstop) moves every staged network
\* back onto the interfaces.
C15_MoveKeepsNetworks ==
    [][\A i \in IfcIds : \A n \in Networks :
          /\ (draggedNetworks = None
                 /\ \E names \in (SUBSET Networks) \ {{}} : sortremove(i, names))
                => Occ(interfaces', n) + StagedOcc(draggedNetworks', n)
                      = Occ(interfaces, n)
          /\ (sortreceive(i) \/ sortstop(i))
                => Occ(interfaces', n)
                      = Occ(interfaces, n) + StagedOcc(draggedNetworks, n)]_vars

\* C16: a move that has begun and ends with sortstop, without having been
\* received by a target, puts the staged networks back on the interface the
\* sortstop is delivered to, their origin; no end of a move leaves a network
\* that was assigned or staged on no interface.
C16_AbortedMoveRestores ==
    [][\A i \in IfcIds :
          /\ (sortstop(i) /\ draggedNetworks.some)
                => Range(draggedNetworks.val) \subseteq Range(interfaces'[i])
          /\ (sortreceive(i) \/ sortstop(i))
                => \A n \in Networks :
                      (Occ(interfaces, n) + StagedOcc(draggedNetworks, n) >= 1)
                         => Occ(interfaces', n) >= 1]_vars

\* C17: no network is assigned to two interfaces at the same time.
C17_ExclusiveMembership ==
    screen = "interfaces" => \A n \in Networks : Occ(interfaces, n) <= 1

\* C18: when a status change has arrived between the begin and the end of a
\* move, the end leaves every network on exactly one interface and nothing
\* staged.
C18_InterruptedMoveConsistent ==
    [][\A i \in IfcIds :
          ((sortreceive(i) \/ sortstop(i)) /\ interrupted)
             => /\ \A n \in Networks : Occ(interfaces', n) = 1
                /\ draggedNetworks' = None]_vars

\* C19: a dragStop, on sortreceive or on sortstop, with nothing staged
\* leaves the assigned networks of every interface as they were and the
\* stage empty.
C19_EndWithoutBeginIsNoOp ==
    [][\A i \in IfcIds :
          ((sortreceive(i) \/ sortstop(i)) /\ draggedNetworks = None)
             => interfaces' = interfaces /\ draggedNetworks' = None]_vars

\* C19 witness: a dragStop with nothing staged has rendered one interface
\* of an untouched assignment again (its sortable took the lock of the
\* moment, the other did not).
C19_Witness ==
    /\ screen = "interfaces" /\ loading = "resolved" /\ draggedNetworks = None
    /\ interfaces = ServerInterfaces /\ initialData = Some(ServerInterfaces)
    /\ sortDisabled["eth0"] # sortDisabled["eth1"]

\* C20: once the tab has torn the edit screen down, the answer to a request
\* of that screen, success or failure, changes neither its baseline, nor
\* its live model, nor what it has rendered.
C20_TornDownSessionUntouched ==
    [][tornDown
          => UNCHANGED <<initialData, disks, volErr, diskErr, interfaces,
                         sortDisabled, ctl, input, formOpen>>]_vars

\* ------------------------------------------------- allocation arithmetic
\* The size handlers of NodeDisk applied to every small disk: one loaded
\* disk screen, unlocked, the form of the disk expanded, the disk and its
\* volumes drawn from bounded sets, the operator's texts from a set that has
\* negative numbers, numbers above the disk, the empty text and junk.

\* Largest disk size and largest stored volume size of a drawn disk.
MaxSize == 1

CapacityDisks == {"sda"}

CapacityTexts ==
    {Digits(n) : n \in (0 - 1)..(MaxSize + 1)} \cup {EmptyText, JunkText}

\* Every allocation of a disk that holds some of the volume groups, not all.
CapacityAllocations ==
    UNION {[S -> 0..MaxSize] : S \in (SUBSET VolumeNames) \ {VolumeNames}}

InitCapacity ==
    /\ screen = "disks"
    /\ node = [pending_addition |-> TRUE, status |-> "discover", error_type |-> "null"]
    /\ cluster = [status |-> "new", deploy |-> FALSE]
    /\ loading = "resolved"
    /\ fetches = {}
    /\ listening = TRUE
    /\ disks \in [CapacityDisks -> [size : 0..MaxSize, volumes : CapacityAllocations]]
    /\ volErr = NoVolErr(disks)
    /\ diskErr = NoDiskErr(disks)
    /\ interfaces = EmptyCollection
    /\ draggedNetworks = None
    /\ sortDisabled = EmptyCollection
    /\ initialData = Some(disks)
    /\ input = NodeDisk_render_input(disks)
    /\ formOpen = [d \in DOMAIN disks |-> TRUE]
    /\ ctl = Disks_render_ctl(disks, volErr, initialData, loading,
                              Disks_isLocked(node, cluster))
    /\ commits = EmptyBag
    /\ defaults = 0
    /\ outcome = "none"
    /\ interrupted = FALSE
    /\ tornDown = FALSE
    /\ nodes = EmptyCollection
    /\ panel = NoPanel
    /\ bulk = EmptyBag
    /\ tab = NoTab
    /\ poll = NoPoll

NextCapacity ==
    \/ \E d \in CapacityDisks, v \in VolumeNames, t \in CapacityTexts : Keyup(d, v, t)
    \/ \E d \in CapacityDisks, v \in VolumeNames : useAllAllowedSpace(d, v)
    \/ \E d \in CapacityDisks, v \in VolumeNames : deleteVolume(d, v)

SpecCapacity == InitCapacity /\ [][NextCapacity]_vars

\* The sizes of the volumes q names, added in the order of q.
RECURSIVE SumInOrder(_, _)
SumInOrder(f, q) == IF q = <<>> THEN 0 ELSE f[Head(q)] + SumInOrder(f, Tail(q))

\* Every order in which the volumes S can be listed.
Orderings(S) ==
    {q \in [1..Cardinality(S) -> S] : \A i, j \in DOMAIN q : q[i] = q[j] => i = j}

\* C21: after every run of updateDisk a disk carries the disk-level error
\* iff its volume sizes add up to strictly more than its size, in whatever
\* order the volumes are listed; a sum equal to the size and a disk without
\* volumes are valid.
C21_DiskInvalidIffOverCapacity ==
    [][\A d \in DOMAIN disks' :
          \A q \in Orderings(DOMAIN disks'[d].volumes) :
              diskErr'[d] <=> SumInOrder(disks'[d].volumes, q) > disks'[d].size]_vars

C21_Witness ==
    /\ loading = "resolved" /\ screen = "disks"
    /\ \E d \in DOMAIN disks :
          /\ Cardinality(DOMAIN disks[d].volumes) >= 2
          /\ diskErr[d]
          /\ SumInOrder(disks[d].volumes,
                        CHOOSE q \in Orderings(DOMAIN disks[d].volumes) : TRUE)
                 = disks[d].size + 1
          /\ input # NodeDisk_render_input(initialData.val)

\* The larger of two integers.
Max2(a, b) == IF a > b THEN a ELSE b

\* C22: after every run of updateDisk, a volume whose input holds the
\* integer c has c stored and no error iff c >= max(0, minimum); otherwise
\* it carries the error and keeps the size it had.  The disk's size plays no
\* part in it.
C22_VolumeAcceptedIffAtLeastMinimum ==
    [][\A d \in DOMAIN disks' : \A v \in DOMAIN disks'[d].volumes :
          input'[d][v].kind = "digits" =>
              IF input'[d][v].n >= Max2(0, MinSize[v])
              THEN disks'[d].volumes[v] = input'[d][v].n /\ ~volErr'[d][v]
              ELSE disks'[d].volumes[v] = disks[d].volumes[v] /\ volErr'[d][v]]_vars

\* The boundary candidate, equal to the minimum and above the disk's size,
\* was typed and stored.
C22_Witness ==
    /\ loading = "resolved" /\ screen = "disks"
    /\ \E d \in DOMAIN disks :
          /\ "os" \in DOMAIN disks[d].volumes
          /\ disks[d].volumes["os"] = MinSize["os"]
          /\ disks[d].volumes["os"] > disks[d].size
          /\ initialData.val[d].volumes["os"] < MinSize["os"]
          /\ ~volErr[d]["os"]
          /\ \E v \in DOMAIN disks[d].volumes : volErr[d][v]

\* What the other volumes of disk d leave of it, v set aside.
LeftByOthers(d, v) ==
    disks[d].size
        - SumInOrder(disks[d].volumes,
                     CHOOSE q \in Orderings(DOMAIN disks[d].volumes \ {v}) : TRUE)

\* The unallocated space of disk d after the step.
UnallocatedAfter(d) ==
    disks'[d].size
        - SumInOrder(disks'[d].volumes,
                     CHOOSE q \in Orderings(DOMAIN disks'[d].volumes) : TRUE)

\* C23 as stated: use-all puts max(0, size - others) into the input and,
\* whenever the other volumes alone fit, leaves the disk with no unallocated
\* space and without the disk-level error.
C23_UseAllFillsDisk ==
    [][\A d \in DOMAIN disks : \A v \in DOMAIN disks[d].volumes :
          useAllAllowedSpace(d, v) =>
              /\ input'[d][v] = Digits(Max2(0, LeftByOthers(d, v)))
              /\ LeftByOthers(d, v) >= 0 =>
                    UnallocatedAfter(d) = 0 /\ ~diskErr'[d]]_vars

\* C23, amended: the same, provided the proposed size is not below the
\* volume's minimum; a proposal below the minimum is refused by the
\* per-volume check and the stored size stays.
C23_UseAllFillsDiskAboveMinimum ==
    [][\A d \in DOMAIN disks : \A v \in DOMAIN disks[d].volumes :
          useAllAllowedSpace(d, v) =>
              /\ input'[d][v] = Digits(Max2(0, LeftByOthers(d, v)))
              /\ (LeftByOthers(d, v) >= 0 /\ LeftByOthers(d, v) >= MinSize[v]) =>
                    /\ disks'[d].volumes[v] = LeftByOthers(d, v)
                    /\ UnallocatedAfter(d) = 0
                    /\ ~diskErr'[d]
              /\ Max2(0, LeftByOthers(d, v)) < MinSize[v] =>
                    volErr'[d][v] /\ disks'[d].volumes[v] = disks[d].volumes[v]]_vars

\* Use-all has grown a volume next to another one until the disk is full.
C23_Witness ==
    /\ loading = "resolved" /\ screen = "disks"
    /\ \E d \in DOMAIN disks : \E v \in DOMAIN disks[d].volumes :
          /\ Cardinality(DOMAIN disks[d].volumes) = 2
          /\ disks[d].volumes[v] > initialData.val[d].volumes[v]
          /\ input[d][v] = Digits(disks[d].volumes[v])
          /\ disks[d].size
                 = SumInOrder(disks[d].volumes,
                              CHOOSE q \in Orderings(DOMAIN disks[d].volumes) : TRUE)
          /\ ~diskErr[d] /\ ~volErr[d][v]

\* C24: after every run of updateDisk, a volume whose input holds text that
\* is no number - the empty text included - carries the error and keeps the
\* size it had: such text is never stored as a size.
C24_UnparseableTextIsInvalid ==
    [][\A d \in DOMAIN disks' : \A v \in DOMAIN disks'[d].volumes :
          input'[d][v].kind # "digits" =>
              volErr'[d][v] /\ disks'[d].volumes[v] = disks[d].volumes[v]]_vars

\* A step that captures the baseline: the last initial fetch answers, or an
\* update request succeeds.
CaptureStep ==
    \/ \E f \in {"node", "volumes", "disks"} : Disks_FetchDone(f) /\ loading' = "resolved"
    \/ \E f \in {"interfaces", "network_configuration"} :
          Interfaces_FetchDone(f) /\ loading' = "resolved"
    \/ \E r \in BagToSet(commits) : Disks_SyncDone(r)
    \/ \E r \in BagToSet(commits) : Interfaces_SyncDone(r)

\* C25: right after every capture hasChanges() is false, on the disk screen
\* and on the interface screen.
C25_CleanAfterCapture ==
    [][CaptureStep =>
          /\ initialData'.some
          /\ screen = "disks" => ~Disks_hasChanges(disks', initialData')
          /\ screen = "interfaces" => ~Interfaces_hasChanges(interfaces', initialData')]_vars

\* A commit has succeeded and the baseline is the committed allocation.
C25_Witness ==
    /\ screen = "disks" /\ loading = "resolved"
    /\ commits = EmptyBag
    /\ initialData.some /\ initialData.val # ServerDisks
    /\ ~Disks_hasChanges(disks, initialData)
    /\ ctl.apply /\ ~ctl.inputs

\* A step in which an update request is answered with a failure.
FailStep ==
    \/ \E r \in BagToSet(commits) : Disks_SyncFail(r)
    \/ \E r \in BagToSet(commits) : Interfaces_SyncFail(r)

\* C26: a step sends an update request only when it is a call of
\* applyChanges that was accepted, and then it sends exactly one; a failed
\* request is taken off the requests in flight and nothing is sent in its
\* place.
C26_OneSyncPerAcceptedApply ==
    [][/\ outcome' = "pending"
            <=> BagCardinality(commits') = BagCardinality(commits) + 1
       /\ outcome' # "pending" => BagCardinality(commits') <= BagCardinality(commits)
       /\ FailStep => BagCardinality(commits') = BagCardinality(commits) - 1]_vars

\* An accepted applyChanges has just sent its one request, which carries the
\* edited allocation.
C26_Witness ==
    /\ screen = "disks" /\ loading = "resolved"
    /\ outcome = "pending"
    /\ BagCardinality(commits) = 1
    /\ \A r \in BagToSet(commits) : r.sent = disks
    /\ Disks_hasChanges(disks, initialData)

\* ------------------------------------------------- node list: bulk updates
\* AssignRolesPanel and DeleteNodesPanel over the nodes the operator chose
\* in the node list.

NodeIds == {"n1", "n2"}
Roles == {"controller", "compute"}

\* The id of the cluster the tab shows.
ClusterId == Some("c1")

\* The attributes of a chosen node as fetched: it is in the cluster or
\* unallocated, its role attribute holds a role or is absent, it has no
\* roles attribute.
FetchedNodes ==
    [cluster_id : {None, ClusterId},
     role : {None} \cup {Some(r) : r \in Roles},
     roles : {None},
     pending_addition : BOOLEAN,
     pending_deletion : BOOLEAN]

\* The toJSON the panels install on their collection:
\* _.pick(node.attributes, 'id', 'cluster_id', 'role', 'pending_addition',
\* 'pending_deletion'); a field whose option is None is absent.
pickedAttributes(ns) ==
    [n \in DOMAIN ns |->
        [id |-> Some(n), cluster_id |-> ns[n].cluster_id, role |-> ns[n].role,
         pending_addition |-> Some(ns[n].pending_addition),
         pending_deletion |-> Some(ns[n].pending_deletion)]]

\* The roles panel and the delete panel are rendered for the chosen nodes:
\* no role is checked, the assign button is not yet usable.
InitRoles ==
    /\ screen = "list"
    /\ node = [pending_addition |-> TRUE, status |-> "discover", error_type |-> "null"]
    /\ cluster = [status |-> "new", deploy |-> FALSE]
    /\ loading = "none"
    /\ fetches = {}
    /\ listening = FALSE
    /\ disks = EmptyCollection
    /\ volErr = EmptyCollection
    /\ diskErr = EmptyCollection
    /\ interfaces = EmptyCollection
    /\ draggedNetworks = None
    /\ sortDisabled = EmptyCollection
    /\ initialData = None
    /\ input = EmptyCollection
    /\ formOpen = EmptyCollection
    /\ ctl = Template(FALSE)
    /\ commits = EmptyBag
    /\ defaults = 0
    /\ outcome = "none"
    /\ interrupted = FALSE
    /\ tornDown = FALSE
    /\ nodes \in [NodeIds -> FetchedNodes]
    /\ panel = [checked |-> {}, assign |-> TRUE, delete |-> FALSE]
    /\ bulk = EmptyBag
    /\ tab = NoTab
    /\ poll = NoPoll

editVars ==
    <<screen, node, cluster, loading, fetches, listening, disks, volErr,
      diskErr, interfaces, draggedNetworks, sortDisabled, initialData, input,
      formOpen, ctl, commits, defaults, outcome, interrupted, tornDown>>

\* AssignRolesPanel.calculateAssignButtonState after the checkbox of role
\* was toggled.
calculateAssignButtonState(role) ==
    /\ screen = "list" /\ nodes # EmptyCollection
    /\ LET checked == IF role \in panel.checked THEN panel.checked \ {role}
                      ELSE panel.checked \cup {role}
       IN panel' = [panel EXCEPT !.checked = checked, !.assign = (checked = {})]
    /\ UNCHANGED <<editVars, nodes, bulk, listVars>>

\* AssignRolesPanel.assignRoles
assignRoles ==
    /\ screen = "list" /\ nodes # EmptyCollection
    /\ ~panel.assign
    /\ BagCardinality(bulk) < MaxCommits
    /\ panel' = [panel EXCEPT !.assign = TRUE]
    /\ nodes' = [n \in DOMAIN nodes |->
                    [nodes[n] EXCEPT !.roles = Some(panel.checked),
                                     !.cluster_id = ClusterId,
                                     !.pending_addition = TRUE,
                                     !.pending_deletion = FALSE]]
    /\ bulk' = bulk (+) SetToBag({[panel |-> "assign", data |-> pickedAttributes(nodes')]})
    /\ UNCHANGED <<editVars, listVars>>

\* DeleteNodesPanel.deleteNodes
deleteNodes ==
    /\ screen = "list" /\ nodes # EmptyCollection
    /\ ~panel.delete
    /\ BagCardinality(bulk) < MaxCommits
    /\ panel' = [panel EXCEPT !.delete = TRUE]
    /\ nodes' = [n \in DOMAIN nodes |->
                    [nodes[n] EXCEPT !.roles = Some({}),
                                     !.cluster_id = None,
                                     !.pending_addition = FALSE,
                                     !.pending_deletion = TRUE]]
    /\ bulk' = bulk (+) SetToBag({[panel |-> "delete", data |-> pickedAttributes(nodes')]})
    /\ UNCHANGED <<editVars, listVars>>

\* The bulk update r succeeds: the done callbacks leave the buttons alone.
Bulk_SyncDone(r) ==
    /\ screen = "list" /\ BagIn(r, bulk)
    /\ bulk' = bulk (-) SetToBag({r})
    /\ UNCHANGED <<editVars, nodes, panel, listVars>>

\* The bulk update r fails: the fail callback enables the panel's button.
Bulk_SyncFail(r) ==
    /\ screen = "list" /\ BagIn(r, bulk)
    /\ bulk' = bulk (-) SetToBag({r})
    /\ panel' = IF r.panel = "assign" THEN [panel EXCEPT !.assign = FALSE]
                ELSE [panel EXCEPT !.delete = FALSE]
    /\ UNCHANGED <<editVars, nodes, listVars>>

NextRoles ==
    \/ \E role \in Roles : calculateAssignButtonState(role)
    \/ assignRoles
    \/ deleteNodes
    \/ \E r \in BagToSet(bulk) : Bulk_SyncDone(r)
    \/ \E r \in BagToSet(bulk) : Bulk_SyncFail(r)

SpecRoles == InitRoles /\ [][NextRoles]_vars

\* The role field f of a request says the roles rs: it is absent for no
\* role, it names the one role of rs.
RoleSays(f, rs) == IF f.some THEN rs = {f.val} ELSE rs = {}

\* C27: every bulk update a step sends carries for each chosen node the
\* fields id, cluster_id (null for a deleted node), role, pending_addition
\* and pending_deletion, and the role it carries says the roles the step has
\* just set on the node.
C27_BulkUpdateCarriesNewRole ==
    [][\A r \in {x \in BagToSet(bulk') : CopiesIn(x, bulk') > CopiesIn(x, bulk)} :
          \A n \in DOMAIN nodes' :
          /\ DOMAIN r.data = DOMAIN nodes'
          /\ r.data[n].id = Some(n)
          /\ r.data[n].cluster_id = nodes'[n].cluster_id
          /\ r.data[n].pending_addition = Some(nodes'[n].pending_addition)
          /\ r.data[n].pending_deletion = Some(nodes'[n].pending_deletion)
          /\ nodes'[n].roles.some
          /\ RoleSays(r.data[n].role, nodes'[n].roles.val)]_vars

\* C28: the step that answers the last update request in flight brings the
\* screen back from committing with its controls re-evaluated: unless the
\* screen is locked, the inputs, the return button and the defaults button
\* are enabled, and apply and revert are enabled as far as there is
\* something to apply or revert.
C28_ReturnReevaluatesControls ==
    [][(Committing /\ commits' = EmptyBag /\ ~isLocked(screen, node, cluster))
          => Interactive(ctl',
                         IF screen = "disks" THEN Disks_hasChanges(disks', initialData')
                         ELSE Interfaces_hasChanges(interfaces', initialData'),
                         Disks_hasValidationErrors(disks', volErr'))]_vars

\* ----------------------------------------------------- opening a session
\* tab.changeScreen for any screenOptions: the node is in the cluster and has
\* a role (Init), or it is not: initialize starts no fetch and calls
\* goToNodeList.

InitNoNode ==
    /\ screen = "list"
    /\ node \in SessionNodeStates
    /\ cluster \in [status : SessionClusterStatuses, deploy : {FALSE}]
    /\ loading = "none"
    /\ fetches = {}
    /\ listening = FALSE
    /\ disks = EmptyCollection
    /\ volErr = EmptyCollection
    /\ diskErr = EmptyCollection
    /\ interfaces = EmptyCollection
    /\ draggedNetworks = None
    /\ sortDisabled = EmptyCollection
    /\ initialData = None
    /\ input = EmptyCollection
    /\ formOpen = EmptyCollection
    /\ ctl = Template(FALSE)
    /\ commits = EmptyBag
    /\ defaults = 0
    /\ outcome = "none"
    /\ interrupted = FALSE
    /\ tornDown = FALSE
    /\ nodes = EmptyCollection
    /\ panel = NoPanel
    /\ bulk = EmptyBag
    /\ tab = NoTab
    /\ poll = NoPoll

InitOpen == Init \/ InitNoNode

\* A fetch started by initialize answers after another one has failed: the
\* disks or interfaces fetch still fills its collection; the callbacks of
\* the rejected $.when do not run and no handler is bound to the collection.
FetchLate(f) ==
    /\ loading = "rejected" /\ f \in fetches
    /\ fetches' = fetches \ {f}
    /\ \/ UNCHANGED <<disks, volErr, diskErr, interfaces>>
       \/ /\ f = "disks"
          /\ disks' = ServerDisks
          /\ volErr' = NoVolErr(ServerDisks)
          /\ diskErr' = NoDiskErr(ServerDisks)
          /\ UNCHANGED interfaces
       \/ /\ f = "interfaces"
          /\ interfaces' = ServerInterfaces
          /\ UNCHANGED <<disks, volErr, diskErr>>
    /\ outcome' = "none"
    /\ UNCHANGED <<screen, feedVars, loading, listening, draggedNetworks,
                   sortDisabled, initialData, input, formOpen, ctl, commits,
                   defaults, histVars>>

NextOpen ==
    \/ Next
    \/ \E f \in {"node", "volumes", "disks", "interfaces", "network_configuration"} :
          FetchLate(f)

SpecOpen == InitOpen /\ [][NextOpen]_vars

\* Nothing editable is rendered: no size input, no disk form, no sortable.
NothingRendered ==
    input = EmptyCollection /\ formOpen = EmptyCollection /\ sortDisabled = EmptyCollection

SameAllocation ==
    /\ DOMAIN disks = DOMAIN initialData.val
    /\ \A d \in DOMAIN disks :
          /\ disks[d].size = initialData.val[d].size
          /\ DOMAIN disks[d].volumes = DOMAIN initialData.val[d].volumes
          /\ \A v \in DOMAIN disks[d].volumes :
                disks[d].volumes[v] = initialData.val[d].volumes[v]

\* Every live interface has the networks the baseline gives it, as a set.
SameMembership ==
    /\ DOMAIN interfaces = DOMAIN initialData.val
    /\ \A i \in DOMAIN interfaces :
          Range(interfaces[i]) = Range(initialData.val[i])

\* C30: on a loaded screen hasChanges() is false exactly when the live
\* configuration holds what the baseline holds - every volume its baseline
\* size, every interface its baseline set of networks - however it got
\* there.
C30_DirtyIsStructural ==
    loading = "resolved" =>
        /\ screen = "disks" =>
              (Disks_hasChanges(disks, initialData) <=> ~SameAllocation)
        /\ screen = "interfaces" =>
              (Interfaces_hasChanges(interfaces, initialData) <=> ~SameMembership)

\* A network was moved to the other interface, the move was sent, and the
\* network was moved back while the request was in flight: the screen is
\* clean again.
C30_Witness ==
    /\ screen = "interfaces" /\ loading = "resolved"
    /\ initialData = Some(ServerInterfaces)
    /\ ~Interfaces_hasChanges(interfaces, initialData)
    /\ \E r \in InFlight : r.sent # interfaces
    /\ ctl.ret

\* A step that runs updateDisks: a keyup in a size input, use-all, delete.
EditStep ==
    /\ screen = "disks" /\ loading = "resolved"
    /\ \E d \in DOMAIN disks : \E v \in DOMAIN disks[d].volumes :
          \E t \in TypedTexts \cup {FormatSize(n) : n \in 0..(MaxInput + 1)} :
              updateDisks(d, v, t)

\* The sizes of the volumes of disk d after the step add up to more than it.
OverCapacityAfter(d) ==
    SumInOrder(disks'[d].volumes,
               CHOOSE q \in Orderings(DOMAIN disks'[d].volumes) : TRUE) > disks'[d].size

\* C31 as stated: after every edit, on every disk, a volume is marked iff
\* the size it holds is below max(0, minimum), and the disk is marked iff
\* the sizes of its volumes exceed it.
C31_MarksFollowStoredSizes ==
    [][EditStep =>
          \A d \in DOMAIN disks' :
              /\ diskErr'[d] <=> OverCapacityAfter(d)
              /\ \A v \in DOMAIN disks'[d].volumes :
                    volErr'[d][v] <=> disks'[d].volumes[v] < Max2(0, MinSize[v])]_vars

\* C31, amended: after every edit, on every disk, a volume is marked iff the
\* number its input holds is refused (it is below max(0, minimum)); a marked
\* volume keeps the size it had, which may be acceptable, and an unmarked
\* volume holds the number of its input.  The disk is marked iff the sizes
\* its volumes hold exceed it, whatever marks the volumes carry.
C31_MarksFollowInputs ==
    [][EditStep =>
          \A d \in DOMAIN disks' :
              /\ diskErr'[d] <=> OverCapacityAfter(d)
              /\ \A v \in DOMAIN disks'[d].volumes :
                    input'[d][v].kind = "digits" =>
                        /\ volErr'[d][v] <=> input'[d][v].n < Max2(0, MinSize[v])
                        /\ volErr'[d][v] => disks'[d].volumes[v] = disks[d].volumes[v]
                        /\ ~volErr'[d][v] =>
                              /\ disks'[d].volumes[v] = input'[d][v].n
                              /\ disks'[d].volumes[v] >= Max2(0, MinSize[v])]_vars

\* A disk is marked while one of its volumes is marked and the other is not;
\* the marked volume holds an acceptable size.
C31_Witness ==
    /\ screen = "disks" /\ loading = "resolved"
    /\ \E d \in DOMAIN disks : \E v, w \in DOMAIN disks[d].volumes :
          /\ diskErr[d]
          /\ volErr[d][v] /\ disks[d].volumes[v] >= Max2(0, MinSize[v])
          /\ ~volErr[d][w]

\* C32: the step that ends the loading of the disk screen captures as
\* baseline the disks the server has answered, whatever status changes came
\* between the answers of the three fetches.
C32_LoadedBaselineIsFetched ==
    [][(screen = "disks" /\ loading = "pending" /\ loading' = "resolved")
          => initialData' = Some(ServerDisks) /\ disks' = ServerDisks]_vars

\* C33: when the cluster's status changes on a loaded screen, the handler
\* leaves the live collection equal to the baseline, the baseline as it
\* was, and hasChanges() false, whatever edits there were.
C33_StatusChangeReverts ==
    [][(loading = "resolved" /\ cluster'.status # cluster.status)
          => /\ initialData' = initialData
             /\ screen = "disks" =>
                   disks' = initialData.val /\ ~Disks_hasChanges(disks', initialData')
             /\ screen = "interfaces" =>
                   /\ interfaces' = initialData.val
                   /\ ~Interfaces_hasChanges(interfaces', initialData')]_vars

\* A status change has reverted an edit that a request in flight carries:
\* the screen is rendered anew and clean.
C33_Witness ==
    /\ screen = "interfaces" /\ loading = "resolved"
    /\ cluster.status = "error"
    /\ interfaces = initialData.val
    /\ \E r \in InFlight : r.sent # interfaces
    /\ ctl = Template(Interfaces_isLocked(node, cluster))

\* The role-assignment requests in flight.
AssignsInFlight ==
    LET assigns == {r \in BagToSet(bulk) : r.panel = "assign"}
    IN IF assigns = {} THEN 0
       ELSE BagCardinality([r \in assigns |-> CopiesIn(r, bulk)])

\* C34: at most one role-assignment request of the panel is in flight, and
\* while it is the assign button is disabled.
C34_OneAssignInFlight ==
    /\ AssignsInFlight <= 1
    /\ AssignsInFlight = 1 => panel.assign

\* ------------------------------------------- the tab and its node list

\* How many screens one run of the tab creates.
MaxScreens == 3

\* The two fetches of one update cycle.
CycleFetches == {"nodes", "unallocated"}

\* NodesTab.changeScreen: the new screen is constructed; with an old screen
\* its fade-out is started and the callback [old, new] waits for it, without
\* one the new screen is rendered and shown at once; tab.screen is the new
\* screen either way.
NodesTab_changeScreen ==
    /\ tab.made < MaxScreens
    /\ LET newScreen == tab.made + 1
           oldScreen == tab.screen
       IN  tab' = IF oldScreen # 0
                    THEN [tab EXCEPT !.made = newScreen, !.screen = newScreen,
                                     !.fades = @ \cup {[old |-> oldScreen, new |-> newScreen]}]
                    ELSE [tab EXCEPT !.made = newScreen, !.screen = newScreen,
                                     !.shown = newScreen]
    /\ UNCHANGED <<editVars, panelVars, poll>>

\* The fade-out of f.old completes: the old screen is torn down, the new one
\* is rendered and its element replaces the content of the tab. The fade-out
\* of an element that is not shown completes at once, the one of the shown
\* element after its animation: the callbacks run in either order.
fadeOut_complete(f) ==
    /\ f \in tab.fades
    /\ tab' = [tab EXCEPT !.fades = @ \ {f}, !.torn = @ \cup {f.old},
                          !.shown = f.new]
    /\ UNCHANGED <<editVars, panelVars, poll>>

\* Variant of complete: the timer is scheduled on the first call already.
complete_afterOne(p) ==
    [p EXCEPT !.calls = @ + 1, !.timers = IF p.calls + 1 >= 1 THEN @ + 1 ELSE @]

\* complete = _.after(2, scheduleUpdate), called by p's cycle once more: the
\* timer is scheduled on the second call and on every later one.
complete(p) ==
    [p EXCEPT !.calls = @ + 1, !.timers = IF p.calls + 1 >= 2 THEN @ + 1 ELSE @]

\* NodesByRolesScreen.update, run by the timer of scheduleUpdate: a new
\* complete and the two fetches.
update ==
    /\ poll.timers > 0
    /\ poll' = [timers |-> poll.timers - 1,
                fetching |-> poll.fetching (+) SetToBag(CycleFetches),
                calls |-> 0]
    /\ UNCHANGED <<editVars, panelVars, tab>>

\* The fetch f settles, with success or not: always(complete). A successful
\* fetch of the cluster's nodes brings the node as the server has it.
Fetch_always(f, ok) ==
    /\ BagIn(f, poll.fetching)
    /\ poll' = complete([poll EXCEPT !.fetching = @ (-) SetToBag({f})])
    /\ IF ok /\ f = "nodes"
         THEN node' \in AllNodeStates
         ELSE node' = node
    /\ UNCHANGED <<screen, cluster, loading, fetches, listening, disks, volErr,
                   diskErr, interfaces, draggedNetworks, sortDisabled,
                   initialData, input, formOpen, ctl, commits, defaults,
                   outcome, interrupted, tornDown, panelVars, tab>>

\* The tab is constructed and a NodesByRolesScreen is initialized:
\* scheduleUpdate has set the first timer.
InitTab ==
    /\ screen = "list"
    /\ node \in SessionNodeStates
    /\ cluster = [status |-> "new", deploy |-> FALSE]
    /\ loading = "none"
    /\ fetches = {}
    /\ listening = FALSE
    /\ disks = EmptyCollection
    /\ volErr = EmptyCollection
    /\ diskErr = EmptyCollection
    /\ interfaces = EmptyCollection
    /\ draggedNetworks = None
    /\ sortDisabled = EmptyCollection
    /\ initialData = None
    /\ input = EmptyCollection
    /\ formOpen = EmptyCollection
    /\ ctl = Template(FALSE)
    /\ commits = EmptyBag
    /\ defaults = 0
    /\ outcome = "none"
    /\ interrupted = FALSE
    /\ tornDown = FALSE
    /\ nodes = EmptyCollection
    /\ panel = NoPanel
    /\ bulk = EmptyBag
    /\ tab = NoTab
    /\ poll = [timers |-> 1, fetching |-> EmptyBag, calls |-> 0]

NextTab ==
    \/ NodesTab_changeScreen
    \/ \E f \in tab.fades : fadeOut_complete(f)
    \/ update
    \/ \E f \in CycleFetches : \E ok \in BOOLEAN : Fetch_always(f, ok)

SpecTab == InitTab /\ [][NextTab]_vars

\* The timer of scheduleUpdate fires and every fetch settles.
SpecPoll ==
    /\ InitTab /\ [][NextTab]_vars
    /\ WF_vars(update)
    /\ WF_vars(\E f \in CycleFetches : \E ok \in BOOLEAN : Fetch_always(f, ok))

\* C35: once no fade-out callback is pending, the screen shown in the tab is
\* tab.screen, every earlier screen is torn down and the shown screen is not
\* a torn-down one, whatever the order the callbacks ran in.
C35_ShownIsCurrentScreen ==
    (tab.screen # 0 /\ tab.fades = {}) =>
        /\ tab.shown = tab.screen
        /\ tab.torn = (1..tab.made) \ {tab.screen}
        /\ tab.shown \notin tab.torn

\* A timer is pending or a cycle is in progress, never both and never two.
OneChain ==
    /\ poll.timers <= 1
    /\ \A f \in CycleFetches : CopiesIn(f, poll.fetching) <= 1
    /\ (poll.timers = 1) # (poll.fetching # EmptyBag)

\* C36: polling is one chain: at any time there is either one pending timer
\* or one update cycle in progress, a timer is scheduled only once both
\* fetches of the cycle have settled, with success or not, and a timer is
\* pending again and again.
C36_PollingIsOneChain ==
    /\ []OneChain
    /\ [][poll'.timers > poll.timers => poll'.fetching = EmptyBag]_vars
    /\ []<>(poll.timers = 1)

\* A second cycle is in progress with one fetch settled, a failed one.
C36_Witness ==
    /\ poll.calls = 1
    /\ poll.fetching = SetToBag({"unallocated"})
    /\ poll.timers = 0
    /\ node \notin SessionNodeStates

====
